---- MODULE Spec2Model ----
(***************************************************************************)
(* Model of pymongo/max_staleness_selectors.py: the maxStalenessSeconds    *)
(* stage of server selection.  select(max_staleness, selection) is a pure  *)
(* function of a Selection snapshot; the state machine draws the inputs in *)
(* Init and applies the function in one step.                              *)
(*                                                                         *)
(* Python values are encoded as follows.                                   *)
(*   - An optional value (None or an object) is a sequence of length 0 or  *)
(*     1: <<>> is None, <<x>> is x.  max_staleness, selection.primary, the *)
(*     returned Selection, smax and srecent are optional values.           *)
(*   - A raised exception is the string naming its class; "none" when the  *)
(*     call returned.                                                      *)
(*   - An accessor whose result depends on an unspecified tie-break is the *)
(*     set of the values it may return; the empty set is None.             *)
(***************************************************************************)
EXTENDS Integers, Sequences, FiniteSets

\* ------------------------------------------------------------------ bounds
MaxTime == 1            \* last_update_time, last_write_date in 0..MaxTime
MaxIdle == 1            \* idle_write_period in 0..MaxIdle
MaxHeartbeat == 2       \* heartbeat_frequency in 0..MaxHeartbeat
MaxStaleness == 2       \* max_staleness in 0..MaxStaleness, or None
MaxValidateArg == 4     \* arguments of a direct call of the validator

\* The hosts of the replica set.  PrimaryAddress is the host that is the
\* primary when there is one; the others are secondaries, arbiters or unknown.
PrimaryAddress == "p"
AddressOrder == <<"a", "b">>

\* --------------------------------------------------------- the data model
RSPrimary == "RSPrimary"
RSSecondary == "RSSecondary"
RSArbiter == "RSArbiter"
Unknown == "Unknown"

ConfigurationError == "ConfigurationError"
AssertionError == "AssertionError"
NoError == "none"

ServerDescription(address, server_type, last_update_time, last_write_date, idle_write_period) ==
    [address |-> address,
     server_type |-> server_type,
     last_update_time |-> last_update_time,
     last_write_date |-> last_write_date,
     idle_write_period |-> idle_write_period]

Selection(server_descriptions, heartbeat_frequency, primary) ==
    [server_descriptions |-> server_descriptions,
     heartbeat_frequency |-> heartbeat_frequency,
     primary |-> primary]

\* Selection.with_server_descriptions: a new Selection with another member
\* list, the same heartbeat_frequency and the same primary reference.
with_server_descriptions(selection, sds) ==
    Selection(sds, selection.heartbeat_frequency, selection.primary)

Range(seq) == {seq[i] : i \in 1..Len(seq)}

\* Selection.secondary_server_descriptions, as a set.
secondary_server_descriptions(selection) ==
    {s \in Range(selection.server_descriptions) : s.server_type = RSSecondary}

\* Selection.secondary_with_max_last_write_date(): the secondaries it may
\* return (any one with the greatest last_write_date); {} is None.
secondary_with_max_last_write_date(selection) ==
    {s \in secondary_server_descriptions(selection) :
        \A t \in secondary_server_descriptions(selection) :
            t.last_write_date <= s.last_write_date}

\* Selection.secondary_with_max_last_update_time(): likewise.
secondary_with_max_last_update_time(selection) ==
    {s \in secondary_server_descriptions(selection) :
        \A t \in secondary_server_descriptions(selection) :
            t.last_update_time <= s.last_update_time}

\* What an accessor returning one of `candidates` (or None) may return.
Optional(candidates) ==
    IF candidates = {} THEN {<<>>} ELSE {<<c>> : c \in candidates}

\* What a call does: it raises, or it returns a value.
Raise(exc) == [raised |-> exc, result |-> <<>>]
Return(value) == [raised |-> NoError, result |-> <<value>>]

\* ------------------------------------------------------------- the code
\* Mutant: the boundary max_staleness = heartbeat_frequency + idle_write_period
\* is rejected.
ValidateRejectsBoundary(max_staleness, heartbeat_frequency, idle_write_period) ==
    IF max_staleness <= heartbeat_frequency + idle_write_period
    THEN ConfigurationError
    ELSE NoError

\* _validate_max_staleness: the exception it raises, NoError when it returns.
_validate_max_staleness(max_staleness, heartbeat_frequency, idle_write_period) ==
    IF max_staleness < heartbeat_frequency + idle_write_period
    THEN ConfigurationError
    ELSE NoError

\* Mutant: a secondary whose staleness equals max_staleness is dropped.
RECURSIVE WithPrimaryLoopStrict(_, _, _, _, _)
WithPrimaryLoopStrict(max_staleness, selection, primary, i, sds) ==
    IF i > Len(selection.server_descriptions) THEN sds
    ELSE LET s == selection.server_descriptions[i]
             staleness == (s.last_update_time - s.last_write_date)
                          - (primary.last_update_time - primary.last_write_date)
                          + selection.heartbeat_frequency
         IN IF s.server_type = RSSecondary
            THEN IF staleness < max_staleness
                 THEN WithPrimaryLoopStrict(max_staleness, selection, primary, i + 1, Append(sds, s))
                 ELSE WithPrimaryLoopStrict(max_staleness, selection, primary, i + 1, sds)
            ELSE WithPrimaryLoopStrict(max_staleness, selection, primary, i + 1, Append(sds, s))

\* Mutant: the comparison is reversed, the stale secondaries are the ones kept.
RECURSIVE WithPrimaryLoopReversed(_, _, _, _, _)
WithPrimaryLoopReversed(max_staleness, selection, primary, i, sds) ==
    IF i > Len(selection.server_descriptions) THEN sds
    ELSE LET s == selection.server_descriptions[i]
             staleness == (s.last_update_time - s.last_write_date)
                          - (primary.last_update_time - primary.last_write_date)
                          + selection.heartbeat_frequency
         IN IF s.server_type = RSSecondary
            THEN IF staleness >= max_staleness
                 THEN WithPrimaryLoopReversed(max_staleness, selection, primary, i + 1, Append(sds, s))
                 ELSE WithPrimaryLoopReversed(max_staleness, selection, primary, i + 1, sds)
            ELSE WithPrimaryLoopReversed(max_staleness, selection, primary, i + 1, Append(sds, s))

\* The loop of _with_primary (lines 60-71), from member i on, sds so far.
RECURSIVE WithPrimaryLoop(_, _, _, _, _)
WithPrimaryLoop(max_staleness, selection, primary, i, sds) ==
    IF i > Len(selection.server_descriptions) THEN sds
    ELSE LET s == selection.server_descriptions[i]
             staleness == (s.last_update_time - s.last_write_date)
                          - (primary.last_update_time - primary.last_write_date)
                          + selection.heartbeat_frequency
         IN IF s.server_type = RSSecondary
            THEN IF staleness <= max_staleness
                 THEN WithPrimaryLoop(max_staleness, selection, primary, i + 1, Append(sds, s))
                 ELSE WithPrimaryLoop(max_staleness, selection, primary, i + 1, sds)
            ELSE WithPrimaryLoop(max_staleness, selection, primary, i + 1, Append(sds, s))

_with_primary(max_staleness, selection) ==
    IF selection.primary = <<>> THEN Raise(AssertionError)
    ELSE LET primary == selection.primary[1]
         IN IF _validate_max_staleness(max_staleness,
                                       selection.heartbeat_frequency,
                                       primary.idle_write_period) # NoError
            THEN Raise(ConfigurationError)
            ELSE Return(with_server_descriptions(
                     selection,
                     WithPrimaryLoop(max_staleness, selection, primary, 1, <<>>)))

\* Mutant: heartbeat_frequency is left out of the staleness.
RECURSIVE NoPrimaryLoopNoHeartbeat(_, _, _, _, _)
NoPrimaryLoopNoHeartbeat(max_staleness, selection, smax, i, sds) ==
    IF i > Len(selection.server_descriptions) THEN sds
    ELSE LET s == selection.server_descriptions[i]
             staleness == smax.last_write_date - s.last_write_date
         IN IF s.server_type = RSSecondary
            THEN IF staleness <= max_staleness
                 THEN NoPrimaryLoopNoHeartbeat(max_staleness, selection, smax, i + 1, Append(sds, s))
                 ELSE NoPrimaryLoopNoHeartbeat(max_staleness, selection, smax, i + 1, sds)
            ELSE NoPrimaryLoopNoHeartbeat(max_staleness, selection, smax, i + 1, Append(sds, s))

\* Mutant: only the secondaries are looked at, the other members are lost.
RECURSIVE NoPrimaryLoopSecondariesOnly(_, _, _, _, _)
NoPrimaryLoopSecondariesOnly(max_staleness, selection, smax, i, sds) ==
    IF i > Len(selection.server_descriptions) THEN sds
    ELSE LET s == selection.server_descriptions[i]
             staleness == smax.last_write_date - s.last_write_date
                          + selection.heartbeat_frequency
         IN IF s.server_type = RSSecondary /\ staleness <= max_staleness
            THEN NoPrimaryLoopSecondariesOnly(max_staleness, selection, smax, i + 1, Append(sds, s))
            ELSE NoPrimaryLoopSecondariesOnly(max_staleness, selection, smax, i + 1, sds)

\* Mutant: smax's last_update_time is read instead of its last_write_date.
RECURSIVE NoPrimaryLoopUpdateTime(_, _, _, _, _)
NoPrimaryLoopUpdateTime(max_staleness, selection, smax, i, sds) ==
    IF i > Len(selection.server_descriptions) THEN sds
    ELSE LET s == selection.server_descriptions[i]
             staleness == smax.last_update_time - s.last_write_date
                          + selection.heartbeat_frequency
         IN IF s.server_type = RSSecondary
            THEN IF staleness <= max_staleness
                 THEN NoPrimaryLoopUpdateTime(max_staleness, selection, smax, i + 1, Append(sds, s))
                 ELSE NoPrimaryLoopUpdateTime(max_staleness, selection, smax, i + 1, sds)
            ELSE NoPrimaryLoopUpdateTime(max_staleness, selection, smax, i + 1, Append(sds, s))

\* Mutant: a secondary whose staleness equals max_staleness is dropped.
RECURSIVE NoPrimaryLoopStrict(_, _, _, _, _)
NoPrimaryLoopStrict(max_staleness, selection, smax, i, sds) ==
    IF i > Len(selection.server_descriptions) THEN sds
    ELSE LET s == selection.server_descriptions[i]
             staleness == smax.last_write_date - s.last_write_date
                          + selection.heartbeat_frequency
         IN IF s.server_type = RSSecondary
            THEN IF staleness < max_staleness
                 THEN NoPrimaryLoopStrict(max_staleness, selection, smax, i + 1, Append(sds, s))
                 ELSE NoPrimaryLoopStrict(max_staleness, selection, smax, i + 1, sds)
            ELSE NoPrimaryLoopStrict(max_staleness, selection, smax, i + 1, Append(sds, s))

\* The loop of _no_primary (lines 97-107), from member i on, sds so far.
RECURSIVE NoPrimaryLoop(_, _, _, _, _)
NoPrimaryLoop(max_staleness, selection, smax, i, sds) ==
    IF i > Len(selection.server_descriptions) THEN sds
    ELSE LET s == selection.server_descriptions[i]
             staleness == smax.last_write_date - s.last_write_date
                          + selection.heartbeat_frequency
         IN IF s.server_type = RSSecondary
            THEN IF staleness <= max_staleness
                 THEN NoPrimaryLoop(max_staleness, selection, smax, i + 1, Append(sds, s))
                 ELSE NoPrimaryLoop(max_staleness, selection, smax, i + 1, sds)
            ELSE NoPrimaryLoop(max_staleness, selection, smax, i + 1, Append(sds, s))

\* Mutant: the bound is validated against smax's idle_write_period.
NoPrimaryValidatesSmax(max_staleness, selection, smax, srecent) ==
    IF smax = <<>> THEN Return(with_server_descriptions(selection, <<>>))
    ELSE IF srecent = <<>> THEN Raise(AssertionError)
    ELSE IF _validate_max_staleness(max_staleness,
                                    selection.heartbeat_frequency,
                                    smax[1].idle_write_period) # NoError
         THEN Raise(ConfigurationError)
         ELSE Return(with_server_descriptions(
                  selection,
                  NoPrimaryLoop(max_staleness, selection, smax[1], 1, <<>>)))

\* Mutant: without secondaries the selection is returned as it came.
NoPrimaryNoShortCircuit(max_staleness, selection, smax, srecent) ==
    IF smax = <<>> THEN Return(selection)
    ELSE IF srecent = <<>> THEN Raise(AssertionError)
    ELSE IF _validate_max_staleness(max_staleness,
                                    selection.heartbeat_frequency,
                                    srecent[1].idle_write_period) # NoError
         THEN Raise(ConfigurationError)
         ELSE Return(with_server_descriptions(
                  selection,
                  NoPrimaryLoop(max_staleness, selection, smax[1], 1, <<>>)))

\* _no_primary, given what the two accessors returned (smax and srecent are
\* optional values).
_no_primary(max_staleness, selection, smax, srecent) ==
    IF smax = <<>> THEN Return(with_server_descriptions(selection, <<>>))
    ELSE IF srecent = <<>> THEN Raise(AssertionError)
    ELSE IF _validate_max_staleness(max_staleness,
                                    selection.heartbeat_frequency,
                                    srecent[1].idle_write_period) # NoError
         THEN Raise(ConfigurationError)
         ELSE Return(with_server_descriptions(
                  selection,
                  NoPrimaryLoop(max_staleness, selection, smax[1], 1, <<>>)))

\* Mutant: only None disables the bound (max_staleness is not None).
TruthyNotNone(max_staleness) == max_staleness # <<>>

\* Python truthiness of max_staleness: None and 0 are false.
Truthy(max_staleness) == max_staleness # <<>> /\ max_staleness[1] # 0

\* ------------------------------------------------------------ the inputs
Times == 0..MaxTime
IdlePeriods == 0..MaxIdle

\* The descriptions host `address` may have when it is not the primary, its
\* idle_write_period drawn from `idles`.  Arbiters and unknown servers report
\* no write date.
MemberDescriptions(address, idles) ==
    {ServerDescription(address, RSSecondary, lut, lwd, idle) :
        lut \in Times, lwd \in Times, idle \in idles}
    \cup {ServerDescription(address, RSArbiter, 0, 0, 0),
          ServerDescription(address, Unknown, 0, 0, 0)}

PrimaryDescriptions ==
    {ServerDescription(PrimaryAddress, RSPrimary, lut, lwd, idle) :
        lut \in Times, lwd \in Times, idle \in IdlePeriods}

\* The member lists over the hosts AddressOrder[i..], each host at most once.
RECURSIVE MemberLists(_, _)
MemberLists(i, idles) ==
    IF i > Len(AddressOrder) THEN {<<>>}
    ELSE LET rest == MemberLists(i + 1, idles)
         IN rest \cup {<<d>> \o r :
                          d \in MemberDescriptions(AddressOrder[i], idles), r \in rest}

\* The Selections select is called with.  Without a primary (primary = <<>>)
\* the secondaries' idle_write_period vary from member to member.  With one,
\* the primary is among the candidates (in_list) or filtered out of them
\* already; the code reads no idle_write_period but the primary's then, and
\* the secondaries carry the same one.
MemberIdlePeriods(primary) ==
    IF primary = <<>> THEN IdlePeriods ELSE {primary[1].idle_write_period}

InputSelection(l, hb, primary, in_list) ==
    Selection(IF in_list THEN primary \o l ELSE l, hb, primary)

MaxStalenessValues == {<<>>} \cup {<<m>> : m \in 0..MaxStaleness}

\* ----------------------------------------------------- the state machine
VARIABLES
    max_staleness,      \* argument of select: <<>> is None
    selection,          \* argument of select
    pc,                 \* "select" before the call, "done" after it;
                        \* "validate" / "validated" for a call of the validator
    raised,             \* the exception the call raised, NoError if none
    result,             \* <<the Selection returned>>, <<>> if none
    smax,               \* _no_primary's local smax, <<>> if None or not set
    srecent,            \* _no_primary's local srecent, likewise
    idle_write_period   \* <<the idle_write_period the validator was called with>>

vars == <<max_staleness, selection, pc, raised, result, smax, srecent, idle_write_period>>

Init ==
    /\ max_staleness \in MaxStalenessValues
    /\ \E primary \in {<<>>} \cup {<<p>> : p \in PrimaryDescriptions}, hb \in 0..MaxHeartbeat :
          \E l \in MemberLists(1, MemberIdlePeriods(primary)),
             in_list \in IF primary = <<>> THEN {FALSE} ELSE BOOLEAN :
             selection = InputSelection(l, hb, primary, in_list)
    /\ pc = "select"
    /\ raised = NoError
    /\ result = <<>>
    /\ smax = <<>>
    /\ srecent = <<>>
    /\ idle_write_period = <<>>

\* select, lines 114-115: the bound is disabled.
SelectDisabled ==
    /\ pc = "select"
    /\ ~Truthy(max_staleness)
    /\ raised' = NoError
    /\ result' = <<selection>>
    /\ pc' = "done"
    /\ UNCHANGED <<max_staleness, selection, smax, srecent, idle_write_period>>

\* select, lines 117-118: a primary is known.
SelectWithPrimary ==
    /\ pc = "select"
    /\ Truthy(max_staleness)
    /\ selection.primary # <<>>
    /\ LET out == _with_primary(max_staleness[1], selection)
       IN /\ raised' = out.raised
          /\ result' = out.result
    /\ idle_write_period' = <<selection.primary[1].idle_write_period>>
    /\ pc' = "done"
    /\ UNCHANGED <<max_staleness, selection, smax, srecent>>

\* select, lines 119-120: no primary is known.
SelectNoPrimary ==
    /\ pc = "select"
    /\ Truthy(max_staleness)
    /\ selection.primary = <<>>
    /\ \E sm \in Optional(secondary_with_max_last_write_date(selection)),
          sr \in Optional(secondary_with_max_last_update_time(selection)) :
          LET out == _no_primary(max_staleness[1], selection, sm, sr)
          IN /\ raised' = out.raised
             /\ result' = out.result
             /\ smax' = sm
             /\ srecent' = IF sm = <<>> THEN <<>> ELSE sr
             /\ idle_write_period' =
                    IF sm = <<>> \/ sr = <<>> THEN <<>>
                    ELSE <<sr[1].idle_write_period>>
    /\ pc' = "done"
    /\ UNCHANGED <<max_staleness, selection>>

Next == SelectDisabled \/ SelectWithPrimary \/ SelectNoPrimary

Spec == Init /\ [][Next]_vars

\* A direct call of _validate_max_staleness(max_staleness, heartbeat_frequency,
\* idle_write_period) on non-negative arguments.
InitValidate ==
    /\ max_staleness \in {<<m>> : m \in 0..(2 * MaxValidateArg)}
    /\ selection \in {Selection(<<>>, hb, <<>>) : hb \in 0..MaxValidateArg}
    /\ pc = "validate"
    /\ raised = NoError
    /\ result = <<>>
    /\ smax = <<>>
    /\ srecent = <<>>
    /\ idle_write_period = <<>>

Validate ==
    /\ pc = "validate"
    /\ \E idle \in 0..MaxValidateArg :
          /\ idle_write_period' = <<idle>>
          /\ raised' = _validate_max_staleness(max_staleness[1],
                                               selection.heartbeat_frequency,
                                               idle)
    /\ pc' = "validated"
    /\ UNCHANGED <<max_staleness, selection, result, smax, srecent>>

NextValidate == Validate

SpecValidate == InitValidate /\ [][NextValidate]_vars

\* ------------------------------------------------------------- the claims
\* The state after select was called with a nonzero bound.
Filtered == pc = "done" /\ max_staleness # <<>> /\ max_staleness[1] # 0

\* The members of a Selection, and those in `result`.
Members(sel) == {sel.server_descriptions[i] : i \in 1..Len(sel.server_descriptions)}
Kept == Members(result[1])
InputSecondaries == {s \in Members(selection) : s.server_type = "RSSecondary"}

\* The result lists members of the input, each once, in the input's order.
RECURSIVE IsSubsequence(_, _)
IsSubsequence(sub, seq) ==
    IF sub = <<>> THEN TRUE
    ELSE IF seq = <<>> THEN FALSE
    ELSE IF Head(sub) = Head(seq) THEN IsSubsequence(Tail(sub), Tail(seq))
    ELSE IsSubsequence(sub, Tail(seq))

\* C1: select(0, selection) and select(None, selection) return the input
\* selection itself and raise nothing, whatever heartbeat_frequency and
\* idle_write_period are.
C1_DisabledBoundIsIdentity ==
    (pc = "done" /\ (max_staleness = <<>> \/ max_staleness = <<0>>))
        => (raised = "none" /\ result = <<selection>>)

\* Witness of C1: select(0, selection) returned the selection although a primary
\* is known and 0 < heartbeat_frequency + primary.idle_write_period.
C1_Witness ==
    /\ pc = "done"
    /\ max_staleness = <<0>>
    /\ selection.primary # <<>>
    /\ selection.heartbeat_frequency > 0
    /\ selection.primary[1].idle_write_period > 0
    /\ Len(selection.server_descriptions) = 3
    /\ result = <<selection>>

\* C2: on non-negative arguments the validator raises ConfigurationError if and
\* only if max_staleness < heartbeat_frequency + idle_write_period; equality
\* passes.
C2_ValidatorFailsIffBelow ==
    pc = "validated"
        => /\ raised \in {"none", "ConfigurationError"}
           /\ raised = "ConfigurationError"
                <=> max_staleness[1]
                        < selection.heartbeat_frequency + idle_write_period[1]

\* Witness of C2: the validator passed on the boundary.
C2_Witness ==
    /\ pc = "validated"
    /\ selection.heartbeat_frequency > 0
    /\ idle_write_period[1] > 0
    /\ max_staleness[1] = selection.heartbeat_frequency + idle_write_period[1]
    /\ raised = "none"

\* C3: with a nonzero bound, a primary P and a bound that passes validation,
\* select returns exactly the members that are not secondaries, and the
\* secondaries S with (S.last_update_time - S.last_write_date)
\* - (P.last_update_time - P.last_write_date) + heartbeat_frequency
\* <= max_staleness.
C3_WithPrimaryKeepsExactly ==
    (/\ Filtered
     /\ selection.primary # <<>>
     /\ max_staleness[1] >= selection.heartbeat_frequency
                            + selection.primary[1].idle_write_period)
        => /\ raised = "none"
           /\ result # <<>>
           /\ IsSubsequence(result[1].server_descriptions, selection.server_descriptions)
           /\ LET P == selection.primary[1]
              IN Kept = {m \in Members(selection) :
                            \/ m.server_type # "RSSecondary"
                            \/ (m.last_update_time - m.last_write_date)
                               - (P.last_update_time - P.last_write_date)
                               + selection.heartbeat_frequency <= max_staleness[1]}

\* Witness of C3: the primary is kept, a secondary whose staleness equals the
\* bound is kept and a secondary whose staleness exceeds it is dropped.
C3_Witness ==
    /\ Filtered
    /\ selection.primary # <<>>
    /\ raised = "none"
    /\ result # <<>>
    /\ selection.primary[1] \in Kept
    /\ LET P == selection.primary[1]
       IN /\ \E m \in InputSecondaries :
                /\ (m.last_update_time - m.last_write_date)
                   - (P.last_update_time - P.last_write_date)
                   + selection.heartbeat_frequency = max_staleness[1]
                /\ m \in Kept
          /\ \E m \in InputSecondaries :
                /\ (m.last_update_time - m.last_write_date)
                   - (P.last_update_time - P.last_write_date)
                   + selection.heartbeat_frequency > max_staleness[1]
                /\ m \notin Kept

\* C4: with a nonzero bound, no primary, at least one secondary and a bound
\* that passes validation, select returns exactly the members that are not
\* secondaries, and the secondaries S with SMax.last_write_date
\* - S.last_write_date + heartbeat_frequency <= max_staleness, SMax being a
\* secondary with the greatest last_write_date.
C4_NoPrimaryKeepsExactly ==
    (/\ Filtered
     /\ selection.primary = <<>>
     /\ InputSecondaries # {}
     /\ srecent # <<>>
     /\ max_staleness[1] >= selection.heartbeat_frequency
                            + srecent[1].idle_write_period)
        => /\ raised = "none"
           /\ result # <<>>
           /\ IsSubsequence(result[1].server_descriptions, selection.server_descriptions)
           /\ \E SMax \in InputSecondaries :
                /\ \A t \in InputSecondaries : t.last_write_date <= SMax.last_write_date
                /\ Kept = {m \in Members(selection) :
                              \/ m.server_type # "RSSecondary"
                              \/ SMax.last_write_date - m.last_write_date
                                 + selection.heartbeat_frequency <= max_staleness[1]}

\* Witness of C4: without a primary, one secondary is kept and a secondary that
\* is further behind SMax than the bound allows is dropped.
C4_Witness ==
    /\ Filtered
    /\ selection.primary = <<>>
    /\ selection.heartbeat_frequency > 0
    /\ raised = "none"
    /\ result # <<>>
    /\ \E m \in InputSecondaries : m \in Kept
    /\ \E m \in InputSecondaries : m \notin Kept

\* C5 as stated: whenever either filter returns a result, every member of the
\* input that is not a secondary is a member of the result.
C5_NonSecondariesAlwaysKept ==
    (Filtered /\ raised = "none" /\ result # <<>>)
        => \A m \in Members(selection) : m.server_type # "RSSecondary" => m \in Kept

\* C5 as amended: whenever either filter returns a result, every member of the
\* input that is not a secondary is a member of the result, unless the
\* selection has neither a primary nor a secondary: the no-primary filter then
\* returns an empty member list.
C5_NonSecondariesKeptUnlessShortCircuit ==
    (Filtered /\ raised = "none" /\ result # <<>>)
        => IF selection.primary = <<>> /\ InputSecondaries = {}
           THEN Kept = {}
           ELSE \A m \in Members(selection) :
                    m.server_type # "RSSecondary" => m \in Kept

\* Witness of C5: the no-primary filter ran its loop and kept an arbiter.
C5_Witness ==
    /\ Filtered
    /\ raised = "none"
    /\ result # <<>>
    /\ selection.primary = <<>>
    /\ InputSecondaries # {}
    /\ \E m \in Members(selection) : m.server_type = "RSArbiter" /\ m \in Kept

\* C6: without a primary and without secondaries, select with a nonzero bound
\* returns a Selection with no members and raises nothing, also when the bound
\* is below heartbeat_frequency.
C6_NoPrimaryNoSecondariesIsEmpty ==
    (Filtered /\ selection.primary = <<>> /\ InputSecondaries = {})
        => /\ raised = "none"
           /\ result # <<>>
           /\ result[1].server_descriptions = <<>>
           /\ result[1].heartbeat_frequency = selection.heartbeat_frequency

\* Witness of C6: the input has members, none a secondary, the bound is below
\* heartbeat_frequency and the result is empty.
C6_Witness ==
    /\ Filtered
    /\ selection.primary = <<>>
    /\ InputSecondaries = {}
    /\ Members(selection) # {}
    /\ max_staleness[1] < selection.heartbeat_frequency
    /\ raised = "none"
    /\ result # <<>>
    /\ result[1].server_descriptions = <<>>

\* C7: for one Selection with a primary and two bounds m1 <= m2 that both pass
\* validation, the secondaries the known-primary filter keeps with m1 are kept
\* with m2 too.  m1 is the bound select was called with.
C7_WithPrimaryMonotone ==
    (Filtered /\ selection.primary # <<>> /\ raised = "none" /\ result # <<>>)
        => \A m2 \in max_staleness[1]..(MaxStaleness + 1) :
              LET wider == _with_primary(m2, selection)
              IN wider.raised = "none"
                    => {s \in Kept : s.server_type = "RSSecondary"}
                          \subseteq {s \in Members(wider.result[1]) :
                                        s.server_type = "RSSecondary"}

\* Witness of C7: a secondary dropped with the bound select was called with is
\* kept with a wider bound, and another secondary is kept with both.
C7_Witness ==
    /\ Filtered
    /\ selection.primary # <<>>
    /\ raised = "none"
    /\ result # <<>>
    /\ \E s \in InputSecondaries : s \in Kept
    /\ \E m2 \in (max_staleness[1] + 1)..MaxStaleness :
          LET wider == _with_primary(m2, selection)
          IN /\ wider.raised = "none"
             /\ \E s \in InputSecondaries :
                   s \notin Kept /\ s \in Members(wider.result[1])

\* C8: select raises ConfigurationError exactly when the bound is nonzero and
\* either a primary is known and max_staleness < heartbeat_frequency
\* + primary.idle_write_period, or no primary is known, there is a secondary
\* and max_staleness < heartbeat_frequency + Srecent.idle_write_period, Srecent
\* being the secondary with the greatest last_update_time; in every other case
\* it returns a Selection.
C8_ConfigurationErrorExactlyWhen ==
    pc = "done"
        => /\ raised = "ConfigurationError"
                <=> /\ max_staleness # <<>>
                    /\ max_staleness[1] # 0
                    /\ \/ /\ selection.primary # <<>>
                          /\ max_staleness[1] < selection.heartbeat_frequency
                                + selection.primary[1].idle_write_period
                       \/ /\ selection.primary = <<>>
                          /\ InputSecondaries # {}
                          /\ srecent # <<>>
                          /\ max_staleness[1] < selection.heartbeat_frequency
                                + srecent[1].idle_write_period
           /\ raised = "ConfigurationError" => result = <<>>
           /\ raised # "ConfigurationError" => raised = "none" /\ result # <<>>
           /\ (max_staleness # <<>> /\ max_staleness[1] # 0
                  /\ selection.primary = <<>> /\ InputSecondaries # {})
                 => /\ srecent # <<>>
                    /\ srecent[1] \in InputSecondaries
                    /\ \A t \in InputSecondaries :
                          t.last_update_time <= srecent[1].last_update_time

\* Witness of C8: without a primary the error is raised for Srecent's
\* idle_write_period although SMax's would have passed.
C8_Witness ==
    /\ Filtered
    /\ selection.primary = <<>>
    /\ raised = "ConfigurationError"
    /\ smax # <<>>
    /\ srecent # <<>>
    /\ smax[1].last_write_date > srecent[1].last_write_date
    /\ srecent[1].last_update_time > smax[1].last_update_time
    /\ max_staleness[1] >= selection.heartbeat_frequency + smax[1].idle_write_period
    /\ max_staleness[1] < selection.heartbeat_frequency + srecent[1].idle_write_period

\* C9 as stated: the outcome of the no-primary filter is the same whichever of
\* the tied secondaries is picked as SMax and whichever as Srecent.
C9_TieBreakIndependent ==
    (Filtered /\ selection.primary = <<>>)
        => \A sm \in Optional(secondary_with_max_last_write_date(selection)),
              sr \in Optional(secondary_with_max_last_update_time(selection)) :
              _no_primary(max_staleness[1], selection, sm, sr)
                  = [raised |-> raised, result |-> result]

\* C9 as amended: the outcome of the no-primary filter is the same whichever of
\* the tied secondaries is picked as SMax, and whichever is picked as Srecent
\* among the tied secondaries that have the same idle_write_period.
C9_TieBreakIndependentOfSMax ==
    (Filtered /\ selection.primary = <<>>)
        => \A sm \in Optional(secondary_with_max_last_write_date(selection)),
              sr \in Optional(secondary_with_max_last_update_time(selection)) :
              (sr # <<>> => sr[1].idle_write_period = srecent[1].idle_write_period)
                  => _no_primary(max_staleness[1], selection, sm, sr)
                        = [raised |-> raised, result |-> result]

\* Witness of C9: two secondaries tied on last_write_date and on
\* last_update_time but different in idle_write_period, and the filter returned.
C9_Witness ==
    /\ Filtered
    /\ selection.primary = <<>>
    /\ raised = "none"
    /\ Cardinality(secondary_with_max_last_write_date(selection)) = 2
    /\ Cardinality(secondary_with_max_last_update_time(selection)) = 2
    /\ \E s, t \in InputSecondaries : s.idle_write_period # t.idle_write_period
    /\ \E s \in InputSecondaries : s # smax[1] /\ s \in Kept

\* C10: in the no-primary filter, when there is a secondary and validation
\* passes, every secondary whose last_write_date is the greatest is kept, so
\* the result has a secondary in it.
C10_SMaxIsKept ==
    (/\ Filtered
     /\ selection.primary = <<>>
     /\ InputSecondaries # {}
     /\ raised = "none")
        => /\ result # <<>>
           /\ \A s \in InputSecondaries :
                 (\A t \in InputSecondaries : t.last_write_date <= s.last_write_date)
                    => s \in Kept
           /\ \E s \in Kept : s.server_type = "RSSecondary"

\* Witness of C10: the bound equals heartbeat_frequency, SMax is kept and the
\* other secondary is dropped.
C10_Witness ==
    /\ Filtered
    /\ selection.primary = <<>>
    /\ raised = "none"
    /\ result # <<>>
    /\ smax # <<>>
    /\ max_staleness[1] = selection.heartbeat_frequency
    /\ smax[1] \in Kept
    /\ \E s \in InputSecondaries : s \notin Kept

====
